---------------------------- MODULE Spec2Model ----------------------------
(***************************************************************************)
(* A model of one yamux Stream (src/stream.go): the stream state machine,  *)
(* the receive and send flow-control windows, the receive buffer, the four *)
(* stream mutexes, the two single-slot notify channels and the deadline    *)
(* flags, driven by concurrent user calls (Read, Write, Close, Shrink,     *)
(* SetReadDeadline, SetWriteDeadline) and session calls (readData,         *)
(* incrSendWindow, forceClose).  Every blocking point of the source (a     *)
(* mutex acquisition, a select) is a position of the calling goroutine.    *)
(***************************************************************************)
EXTENDS Integers, Sequences, FiniteSets, TLC

(***************************************************************************)
(* Bounds of the model.  The windows are scaled down from 256 KiB so that  *)
(* a few small frames exhaust them.                                        *)
(***************************************************************************)
InitialStreamWindow == 2
ExtraWindow == 0
MaxLen == 2
MaxFrames == 2
MaxReads == 2
MaxWrites == 2
MaxDeadlineCalls == 2
MaxCloses == 2
MaxForces == 1
MaxOps == 4

\* config.MaxStreamWindowSize: at least the initial window.
MaxStreamWindowSize == InitialStreamWindow + ExtraWindow

\* recvWindow, sendWindow and the window delta are uint32 in the source.  2^32
\* is outside TLC's integers; the model keeps a 16-bit word, which wraps the
\* same way for the window sizes used here.
UintMod == 65536

streamInit == "streamInit"
streamSYNSent == "streamSYNSent"
streamSYNReceived == "streamSYNReceived"
streamEstablished == "streamEstablished"
streamLocalClose == "streamLocalClose"
streamRemoteClose == "streamRemoteClose"
streamClosed == "streamClosed"
streamReset == "streamReset"

StreamStates ==
  {streamInit, streamSYNSent, streamSYNReceived, streamEstablished,
   streamLocalClose, streamRemoteClose, streamClosed, streamReset}

flagSYN == "SYN"
flagACK == "ACK"
flagFIN == "FIN"
flagRST == "RST"

typeData == "Data"
typeWindowUpdate == "WindowUpdate"

\* Error values returned to the callers.
ErrNil == "nil"
ErrEOF == "EOF"
ErrTimeout == "Timeout"
ErrStreamClosed == "StreamClosed"
ErrConnectionReset == "ConnectionReset"
ErrRecvWindowExceeded == "RecvWindowExceeded"
ErrUnexpectedFlag == "UnexpectedFlag"
ErrSession == "SessionError"
ErrCopy == "CopyError"

\* Goroutines.
Readers == {"r1", "r2"}
Writers == {"w1", "w2"}
Closers == {"c1", "c2"}
Sess == "sess"
Forcer == "fc"
NoProc == "none"

VARIABLES
  state, stateLock,
  recvWindow, recvBuf, recvLock,
  sendWindow, sendLock,
  controlHdrLock,
  recvNotifyCh, sendNotifyCh,
  readTimedOut, writeTimedOut, readTimer, writeTimer, timers,
  rd, wr, cl, ss, fc, dl, tch,
  sent, closeStreamCalled, establishStreamCalled,
  delivered, accepted, nextByte, hist, calls

vars ==
  <<state, stateLock, recvWindow, recvBuf, recvLock, sendWindow, sendLock,
    controlHdrLock, recvNotifyCh, sendNotifyCh,
    readTimedOut, writeTimedOut, readTimer, writeTimer, timers,
    rd, wr, cl, ss, fc, dl, tch,
    sent, closeStreamCalled, establishStreamCalled,
    delivered, accepted, nextByte, hist, calls>>

streamVars == <<state, stateLock>>
recvVars == <<recvWindow, recvBuf, recvLock>>
sendVars == <<sendWindow, sendLock>>
notifyVars == <<recvNotifyCh, sendNotifyCh>>
deadlineVars == <<readTimedOut, writeTimedOut, readTimer, writeTimer, timers, dl>>
sessionVars == <<closeStreamCalled, establishStreamCalled>>
byteVars == <<delivered, accepted, nextByte>>

Min(a, b) == IF a < b THEN a ELSE b

\* uint32 arithmetic.
AddU32(a, b) == (a + b) % UintMod
SubU32(a, b) == (a - b) % UintMod

Take(s, n) == SubSeq(s, 1, n)
Drop(s, n) == SubSeq(s, n + 1, Len(s))

\* The bytes first .. first + n - 1 arriving on the connection, each tagged with
\* its position in the inbound byte stream.
ConnBytes(first, n) == [i \in 1..n |-> first + i - 1]

\* The n bytes of the buffer a user passes to its c-th Write.
UserBytes(w, c, n) == [i \in 1..n |-> <<w, c, i>>]

(***************************************************************************)
(* The session interface the stream consumes.                              *)
(***************************************************************************)

\* asyncNotify(ch): a non-blocking send on a channel of capacity 1.  The slot
\* is full afterwards whether or not it was full before.
asyncNotify(ch) == 1

\* Lines 381-384.
notifyWaiting(chs) == <<asyncNotify(chs[1]), asyncNotify(chs[2])>>

\* session.waitForSendErr(hdr, body, errCh): the frame goes out (ok) or the
\* session reports an error and the frame does not go out.
waitForSendErr(log, frame, ok) == IF ok THEN Append(log, frame) ELSE log

SendErr(ok) == IF ok THEN ErrNil ELSE ErrSession

Frame(type, flags, length, body, by) ==
  [type |-> type, flags |-> flags, length |-> length, body |-> body, by |-> by]

(***************************************************************************)
(* sendFlags: the flags to piggyback on an outbound frame and the state    *)
(* the stream is left in; the whole function runs under stateLock.         *)
(***************************************************************************)
sendFlags(st) ==
  CASE st = streamInit -> [flags |-> {flagSYN}, state |-> streamSYNSent]
    [] st = streamSYNReceived -> [flags |-> {flagACK}, state |-> streamEstablished]
    [] OTHER -> [flags |-> {}, state |-> st]

(***************************************************************************)
(* processFlags: the effect of the flags of an inbound frame.  The whole   *)
(* function runs under stateLock; closeStream is deferred until the lock   *)
(* is released.                                                            *)
(***************************************************************************)
\* A processFlags whose ACK establishes the stream whatever its state.
ProcessACKAny(st, flags) ==
  IF flagACK \in flags THEN streamEstablished ELSE st

\* A processFlags whose ACK establishes a stream in Init as well.
ProcessACKInit(st, flags) ==
  IF flagACK \in flags /\ st \in {streamInit, streamSYNSent}
  THEN streamEstablished ELSE st

ProcessACK(st, flags) ==
  IF flagACK \in flags /\ st = streamSYNSent THEN streamEstablished ELSE st

FINKnown(st) ==
  st \in {streamSYNSent, streamSYNReceived, streamEstablished, streamLocalClose}

ProcessFIN(st) ==
  IF st = streamLocalClose THEN streamClosed ELSE streamRemoteClose

\* A processFlags whose RST case changes the state without notifyWaiting.
processFlagsQuiet(st, flags) ==
  LET s1 == ProcessACK(st, flags)
      est == flagACK \in flags
  IN  IF flagFIN \in flags /\ ~FINKnown(s1)
      THEN [state |-> s1, err |-> ErrUnexpectedFlag, notify |-> FALSE,
            closeStream |-> FALSE, establish |-> est]
      ELSE LET s2 == IF flagFIN \in flags THEN ProcessFIN(s1) ELSE s1
               s3 == IF flagRST \in flags THEN streamReset ELSE s2
           IN  [state |-> s3, err |-> ErrNil,
                notify |-> (flagFIN \in flags),
                closeStream |-> ((flagFIN \in flags /\ s1 = streamLocalClose)
                                 \/ flagRST \in flags),
                establish |-> est]

processFlags(st, flags) ==
  LET s1 == ProcessACK(st, flags)
      est == flagACK \in flags
  IN  IF flagFIN \in flags /\ ~FINKnown(s1)
      THEN [state |-> s1, err |-> ErrUnexpectedFlag, notify |-> FALSE,
            closeStream |-> FALSE, establish |-> est]
      ELSE LET s2 == IF flagFIN \in flags THEN ProcessFIN(s1) ELSE s1
               s3 == IF flagRST \in flags THEN streamReset ELSE s2
           IN  [state |-> s3, err |-> ErrNil,
                notify |-> (flagFIN \in flags \/ flagRST \in flags),
                closeStream |-> ((flagFIN \in flags /\ s1 = streamLocalClose)
                                 \/ flagRST \in flags),
                establish |-> est]


(***************************************************************************)
(* The state after newStream(session, id, st): the session creates the     *)
(* stream in streamInit (local open) or streamSYNReceived (remote open).   *)
(***************************************************************************)
IdleReader == [pc |-> "idle", cap |-> 0, n |-> 0, delta |-> 0, flags |-> {},
               err |-> ErrNil, rst |-> FALSE, late |-> FALSE]
IdleWriter == [pc |-> "idle", id |-> 0, len |-> 0, total |-> 0, window |-> 0,
               max |-> 0, flags |-> {}, n |-> 0, err |-> ErrNil,
               rst |-> FALSE, late |-> FALSE, trace |-> <<>>, start |-> 0]
IdleCloser == [pc |-> "idle", closeStream |-> FALSE, flags |-> {},
               from |-> streamInit, to |-> streamInit]
IdleSession == [pc |-> "idle", kind |-> typeData, flags |-> {}, length |-> 0,
                err |-> ErrNil, pre |-> streamInit,
                post |-> streamInit]
IdleForcer == [pc |-> "idle"]
IdleDeadline == [pc |-> "idle", t |-> "zero"]
NoCalls == [reads |-> 0, writes |-> 0, closes |-> 0, frames |-> 0,
            forces |-> 0, deadlines |-> 0]
NoHistory == [credit |-> 0, readErr |-> FALSE, closeReturned |-> FALSE,
              forced |-> FALSE, reset |-> FALSE, dataReads |-> 0,
              created |-> streamInit]

newStream(st) ==
  /\ state = st
  /\ stateLock = NoProc
  /\ recvWindow = InitialStreamWindow
  /\ sendWindow = InitialStreamWindow
  /\ recvBuf = [isNil |-> TRUE, bytes |-> <<>>]
  /\ recvLock = NoProc
  /\ sendLock = NoProc
  /\ controlHdrLock = NoProc
  /\ recvNotifyCh = 0
  /\ sendNotifyCh = 0
  /\ readTimedOut = 0
  /\ writeTimedOut = 0
  /\ readTimer = 0
  /\ writeTimer = 0
  /\ timers = {}
  /\ rd = [r \in Readers |-> IdleReader]
  /\ wr = [w \in Writers |-> IdleWriter]
  /\ cl = [c \in Closers |-> IdleCloser]
  /\ ss = IdleSession
  /\ fc = IdleForcer
  /\ dl = IdleDeadline
  /\ tch = [p \in Readers \cup Writers |-> FALSE]
  /\ sent = <<>>
  /\ closeStreamCalled = FALSE
  /\ establishStreamCalled = FALSE
  /\ delivered = <<>>
  /\ accepted = <<>>
  /\ nextByte = 1
  /\ hist = [NoHistory EXCEPT !.created = st]
  /\ calls = NoCalls

\* An isReadTimedOut that never reports the flag.
isReadTimedOutNever == FALSE

\* Lines 521-523 and 534-536.
isReadTimedOut == readTimedOut # 0
isWriteTimedOut == writeTimedOut # 0

(***************************************************************************)
(* Read (lines 90-144).                                                    *)
(***************************************************************************)

\* Every return of Read: the deferred cancel() of the timeout observer and the
\* deferred asyncNotify(recvNotifyCh) run before the caller sees (n, err).
ReadReturn(r, n, err) ==
  /\ rd' = [rd EXCEPT ![r] = [IdleReader EXCEPT !.n = n, !.err = err,
                                                 !.rst = rd[r].rst,
                                                 !.late = rd[r].late]]
  /\ recvNotifyCh' = asyncNotify(recvNotifyCh)
  /\ tch' = [tch EXCEPT ![r] = FALSE]

\* Lines 90-100: Read(b) with len(b) = n is called.
ReadCall(r, n, maxCalls) ==
  /\ rd[r].pc = "idle"
  /\ calls.reads < maxCalls
  /\ calls' = [calls EXCEPT !.reads = @ + 1]
  /\ IF isReadTimedOut
     THEN /\ rd' = [rd EXCEPT ![r] = [IdleReader EXCEPT
                                         !.err = ErrTimeout,
                                         !.late = hist.closeReturned]]
          /\ recvNotifyCh' = asyncNotify(recvNotifyCh)
     ELSE /\ rd' = [rd EXCEPT ![r] = [IdleReader EXCEPT
                                         !.pc = "lockState", !.cap = n,
                                         !.late = hist.closeReturned]]
          /\ UNCHANGED recvNotifyCh
  /\ UNCHANGED <<streamVars, recvVars, sendVars, controlHdrLock, sendNotifyCh,
                 deadlineVars, wr, cl, ss, fc, tch, sent, sessionVars,
                 byteVars, hist>>

\* Lines 103-121: the state switch.  In the three closing states the goroutine
\* keeps stateLock and goes on to take recvLock (line 110).
ReadLockState(r) ==
  /\ rd[r].pc = "lockState"
  /\ stateLock = NoProc
  /\ IF state \in {streamLocalClose, streamRemoteClose, streamClosed}
     THEN /\ stateLock' = r
          /\ rd' = [rd EXCEPT ![r].pc = "lockRecvEOF"]
          /\ UNCHANGED <<recvNotifyCh, tch>>
     ELSE /\ UNCHANGED stateLock
          /\ IF state = streamReset
             THEN ReadReturn(r, 0, ErrConnectionReset)
             ELSE /\ rd' = [rd EXCEPT ![r].pc = "lockRecv"]
                  /\ UNCHANGED <<recvNotifyCh, tch>>
  /\ UNCHANGED <<state, recvVars, sendVars, controlHdrLock, sendNotifyCh,
                 deadlineVars, wr, cl, ss, fc, sent, sessionVars, byteVars,
                 hist, calls>>

\* Lines 110-116 and 121: under stateLock, take recvLock and look at the buffer.
ReadCheckEOF(r) ==
  /\ rd[r].pc = "lockRecvEOF"
  /\ recvLock = NoProc
  /\ stateLock' = NoProc
  /\ IF recvBuf.isNil \/ Len(recvBuf.bytes) = 0
     THEN ReadReturn(r, 0, ErrEOF)
     ELSE /\ rd' = [rd EXCEPT ![r].pc = "lockRecv"]
          /\ UNCHANGED <<recvNotifyCh, tch>>
  /\ UNCHANGED <<state, recvVars, sendVars, controlHdrLock, sendNotifyCh,
                 deadlineVars, wr, cl, ss, fc, sent, sessionVars, byteVars,
                 hist, calls>>

\* recvBuf.Read(b): the first min(len(b), Len()) bytes leave the buffer.
BufferRead(buf, n) ==
  [isNil |-> buf.isNil, bytes |-> Drop(buf.bytes, Min(n, Len(buf.bytes)))]

\* Lines 124-135: block when the buffer is empty, else read from it.
ReadLockRecv(r) ==
  /\ rd[r].pc = "lockRecv"
  /\ recvLock = NoProc
  /\ IF recvBuf.isNil \/ Len(recvBuf.bytes) = 0
     THEN /\ rd' = [rd EXCEPT ![r].pc = "select"]
          /\ UNCHANGED <<recvBuf, delivered>>
     ELSE LET n == Min(rd[r].cap, Len(recvBuf.bytes))
          IN  /\ recvBuf' = BufferRead(recvBuf, rd[r].cap)
              /\ delivered' = delivered \o Take(recvBuf.bytes, n)
              /\ rd' = [rd EXCEPT ![r].pc = "swuLockCtl", ![r].n = n]
  /\ UNCHANGED <<streamVars, recvWindow, recvLock, sendVars, controlHdrLock,
                 notifyVars, deadlineVars, wr, cl, ss, fc, tch, sent,
                 sessionVars, accepted, nextByte, hist, calls>>

\* Line 138: the select receives from recvNotifyCh and the loop continues.
ReadWake(r) ==
  /\ rd[r].pc = "select"
  /\ recvNotifyCh = 1
  /\ recvNotifyCh' = 0
  /\ rd' = [rd EXCEPT ![r].pc = "lockState"]
  /\ UNCHANGED <<streamVars, recvVars, sendVars, controlHdrLock, sendNotifyCh,
                 deadlineVars, wr, cl, ss, fc, tch, sent, sessionVars,
                 byteVars, hist, calls>>

\* Line 140: the select receives from the closed timeout channel.
ReadTimeout(r) ==
  /\ rd[r].pc = "select"
  /\ tch[r]
  /\ ReadReturn(r, 0, ErrTimeout)
  /\ UNCHANGED <<streamVars, recvVars, sendVars, controlHdrLock, sendNotifyCh,
                 deadlineVars, wr, cl, ss, fc, sent, sessionVars, byteVars,
                 hist, calls>>

(***************************************************************************)
(* sendWindowUpdate (lines 242-274), called by Read after it took bytes.   *)
(***************************************************************************)

\* Line 253: delta := (max - bufLen) - s.recvWindow, in uint32.
WindowDelta(max, bufLen, rw) == SubU32(SubU32(max, bufLen), rw)

\* A sendWindowUpdate that omits every update without flags.
OmitUpdateUnflagged(delta, max, flags) == flags = {}

\* Line 259: the update is omitted.
OmitUpdate(delta, max, flags) == delta < (max \div 2) /\ flags = {}

\* Line 243.
SwuLockCtl(r) ==
  /\ rd[r].pc = "swuLockCtl"
  /\ controlHdrLock = NoProc
  /\ controlHdrLock' = r
  /\ rd' = [rd EXCEPT ![r].pc = "swuLockRecv"]
  /\ UNCHANGED <<streamVars, recvVars, sendVars, notifyVars, deadlineVars,
                 wr, cl, ss, fc, tch, sent, sessionVars, byteVars, hist, calls>>

\* Lines 247-253.
SwuLockRecv(r) ==
  /\ rd[r].pc = "swuLockRecv"
  /\ recvLock = NoProc
  /\ recvLock' = r
  /\ rd' = [rd EXCEPT ![r].pc = "swuFlags",
                      ![r].delta = WindowDelta(MaxStreamWindowSize,
                                               Len(recvBuf.bytes), recvWindow)]
  /\ UNCHANGED <<streamVars, recvWindow, recvBuf, sendVars, controlHdrLock,
                 notifyVars, deadlineVars, wr, cl, ss, fc, tch, sent,
                 sessionVars, byteVars, hist, calls>>

\* Lines 256-266: sendFlags takes stateLock while recvLock is held.
SwuSendFlags(r) ==
  /\ rd[r].pc = "swuFlags"
  /\ stateLock = NoProc
  /\ LET sf == sendFlags(state)
     IN  /\ state' = sf.state
         /\ recvLock' = NoProc
         /\ IF OmitUpdate(rd[r].delta, MaxStreamWindowSize, sf.flags)
            THEN /\ controlHdrLock' = NoProc
                 /\ ReadReturn(r, rd[r].n, ErrNil)
                 /\ hist' = [hist EXCEPT !.dataReads = @ + 1]
                 /\ UNCHANGED recvWindow
            ELSE /\ recvWindow' = AddU32(recvWindow, rd[r].delta)
                 /\ rd' = [rd EXCEPT ![r].pc = "swuSend", ![r].flags = sf.flags]
                 /\ UNCHANGED <<controlHdrLock, recvNotifyCh, tch, hist>>
  /\ UNCHANGED <<stateLock, recvBuf, sendVars, sendNotifyCh, deadlineVars,
                 wr, cl, ss, fc, sent, sessionVars, byteVars, calls>>

\* Lines 269-273.
SwuSend(r, ok) ==
  /\ rd[r].pc = "swuSend"
  /\ sent' = waitForSendErr(sent,
               Frame(typeWindowUpdate, rd[r].flags, rd[r].delta, <<>>, r), ok)
  /\ controlHdrLock' = NoProc
  /\ ReadReturn(r, rd[r].n, SendErr(ok))
  /\ hist' = [hist EXCEPT !.dataReads = @ + 1]
  /\ UNCHANGED <<streamVars, recvVars, sendVars, sendNotifyCh, deadlineVars,
                 wr, cl, ss, fc, sessionVars, byteVars, calls>>


(***************************************************************************)
(* Write (lines 147-159) and write (lines 163-221).                        *)
(***************************************************************************)

\* Every return of Write: the deferred cancel() of write's observer and the
\* deferred sendLock.Unlock().  The call's arguments stay readable.
WriteReturn(w, n, err) ==
  /\ wr' = [wr EXCEPT ![w] = [@ EXCEPT !.pc = "idle", !.total = 0, !.window = 0,
                                       !.max = 0, !.flags = {}, !.n = n,
                                       !.err = err, !.trace = <<>>,
                                       !.start = 0]]
  /\ sendLock' = NoProc
  /\ tch' = [tch EXCEPT ![w] = FALSE]

\* Line 147: Write(b) with len(b) = n is called and goes for sendLock.
WriteCall(w, n, maxCalls) ==
  /\ wr[w].pc = "idle"
  /\ calls.writes < maxCalls
  /\ calls' = [calls EXCEPT !.writes = @ + 1]
  /\ wr' = [wr EXCEPT ![w] = [IdleWriter EXCEPT !.pc = "lock", !.len = n,
                                !.id = calls.writes + 1,
                                !.late = hist.closeReturned]]
  /\ UNCHANGED <<streamVars, recvVars, sendVars, controlHdrLock, notifyVars,
                 deadlineVars, rd, cl, ss, fc, tch, sent, sessionVars,
                 byteVars, hist>>

\* Lines 148-152 and 168-175.
WriteLock(w) ==
  /\ wr[w].pc = "lock"
  /\ sendLock = NoProc
  /\ IF wr[w].len = 0
     THEN /\ wr' = [wr EXCEPT ![w] = [@ EXCEPT !.pc = "idle", !.n = 0,
                                               !.err = ErrNil]]
          /\ UNCHANGED <<sendLock, tch>>
     ELSE IF isWriteTimedOut
     THEN /\ wr' = [wr EXCEPT ![w] = [@ EXCEPT !.pc = "idle", !.n = 0,
                                               !.err = ErrTimeout]]
          /\ UNCHANGED <<sendLock, tch>>
     ELSE /\ wr' = [wr EXCEPT ![w] = [@ EXCEPT !.pc = "state",
                                               !.start = sendWindow]]
          /\ sendLock' = w
          /\ UNCHANGED tch
  /\ UNCHANGED <<streamVars, recvVars, sendWindow, controlHdrLock, notifyVars,
                 deadlineVars, rd, cl, ss, fc, sent, sessionVars, byteVars,
                 hist, calls>>

\* A write that is refused only once both directions are closed.
WriteStateErrHalfOpen(st) ==
  CASE st = streamClosed -> ErrStreamClosed
    [] st = streamReset -> ErrConnectionReset
    [] OTHER -> ErrNil

\* Lines 179-188: the error write returns in this state, or nil.
WriteStateErr(st) ==
  CASE st \in {streamLocalClose, streamClosed} -> ErrStreamClosed
    [] st = streamReset -> ErrConnectionReset
    [] OTHER -> ErrNil

\* Lines 178-189.
WriteState(w) ==
  /\ wr[w].pc = "state"
  /\ stateLock = NoProc
  /\ IF WriteStateErr(state) # ErrNil
     THEN WriteReturn(w, wr[w].total, WriteStateErr(state))
     ELSE /\ wr' = [wr EXCEPT ![w].pc = "window"]
          /\ UNCHANGED <<sendLock, tch>>
  /\ UNCHANGED <<streamVars, recvVars, sendWindow, controlHdrLock, notifyVars,
                 deadlineVars, rd, cl, ss, fc, sent, sessionVars, byteVars,
                 hist, calls>>

\* Lines 192-193: window := atomic.LoadUint32(&s.sendWindow).
WriteWindow(w) ==
  /\ wr[w].pc = "window"
  /\ wr' = [wr EXCEPT ![w].window = sendWindow,
                      ![w].pc = IF sendWindow # 0 THEN "flags" ELSE "select"]
  /\ UNCHANGED <<streamVars, recvVars, sendVars, controlHdrLock, notifyVars,
                 deadlineVars, rd, cl, ss, fc, tch, sent, sessionVars,
                 byteVars, hist, calls>>

\* A write that frames all it was given, whatever the window.
FrameLenAll(window, remaining) == remaining

\* Line 198: max = min(window, uint32(len(b))).
FrameLen(window, remaining) == Min(window, remaining)

\* Lines 195-199.
WriteSendFlags(w) ==
  /\ wr[w].pc = "flags"
  /\ stateLock = NoProc
  /\ state' = sendFlags(state).state
  /\ wr' = [wr EXCEPT ![w].flags = sendFlags(state).flags,
                      ![w].max = FrameLen(wr[w].window, wr[w].len - wr[w].total),
                      ![w].pc = "send"]
  /\ UNCHANGED <<stateLock, recvVars, sendVars, controlHdrLock, notifyVars,
                 deadlineVars, rd, cl, ss, fc, tch, sent, sessionVars,
                 byteVars, hist, calls>>

\* A write that always frames the head of the buffer Write was given.
FrameBodyFromStart(w) ==
  SubSeq(UserBytes(w, wr[w].id, wr[w].len), 1, wr[w].max)

\* b[:max] of the bytes not yet written.
FrameBody(w) ==
  SubSeq(UserBytes(w, wr[w].id, wr[w].len), wr[w].total + 1,
         wr[w].total + wr[w].max)

\* Lines 202-205.
WriteSend(w, ok) ==
  /\ wr[w].pc = "send"
  /\ sent' = waitForSendErr(sent,
               Frame(typeData, wr[w].flags, wr[w].max, FrameBody(w),
                     <<w, wr[w].id>>), ok)
  /\ IF ok
     THEN /\ wr' = [wr EXCEPT ![w].pc = "sub",
                              ![w].trace = Append(@, <<"frame", wr[w].max>>)]
          /\ UNCHANGED <<sendLock, tch>>
     ELSE WriteReturn(w, wr[w].total, SendErr(ok))
  /\ UNCHANGED <<streamVars, recvVars, sendWindow, controlHdrLock, notifyVars,
                 deadlineVars, rd, cl, ss, fc, sessionVars, byteVars, hist,
                 calls>>

\* Lines 208-211, then the loop of Write: atomic.AddUint32(&s.sendWindow,
\* ^uint32(max-1)) subtracts max.
WriteSub(w) ==
  /\ wr[w].pc = "sub"
  /\ sendWindow' = SubU32(sendWindow, wr[w].max)
  /\ LET total == wr[w].total + wr[w].max
     IN  IF total >= wr[w].len THEN WriteReturn(w, total, ErrNil)
         ELSE IF isWriteTimedOut THEN WriteReturn(w, total, ErrTimeout)
         ELSE /\ wr' = [wr EXCEPT ![w] = [@ EXCEPT !.pc = "state",
                                                   !.total = total,
                                                   !.window = 0, !.max = 0,
                                                   !.flags = {}]]
              /\ tch' = [tch EXCEPT ![w] = FALSE]
              /\ UNCHANGED sendLock
  /\ UNCHANGED <<streamVars, recvVars, controlHdrLock, notifyVars,
                 deadlineVars, rd, cl, ss, fc, sent, sessionVars, byteVars,
                 hist, calls>>

\* Line 215: the select receives from sendNotifyCh and the loop continues.
WriteWake(w) ==
  /\ wr[w].pc = "select"
  /\ sendNotifyCh = 1
  /\ sendNotifyCh' = 0
  /\ wr' = [wr EXCEPT ![w].pc = "state"]
  /\ UNCHANGED <<streamVars, recvVars, sendVars, controlHdrLock, recvNotifyCh,
                 deadlineVars, rd, cl, ss, fc, tch, sent, sessionVars,
                 byteVars, hist, calls>>

\* Line 217: the select receives from the closed timeout channel.
WriteTimeout(w) ==
  /\ wr[w].pc = "select"
  /\ tch[w]
  /\ WriteReturn(w, wr[w].total, ErrTimeout)
  /\ UNCHANGED <<streamVars, recvVars, sendWindow, controlHdrLock, notifyVars,
                 deadlineVars, rd, cl, ss, fc, sent, sessionVars, byteVars,
                 hist, calls>>

(***************************************************************************)
(* Close (lines 291-325) and sendClose (lines 277-288).                    *)
(***************************************************************************)

\* A switch whose LocalClose case falls through to SEND_CLOSE.
closeSwitchResend(st) ==
  CASE st \in {streamSYNSent, streamSYNReceived, streamEstablished,
               streamLocalClose} ->
         [state |-> streamLocalClose, closeStream |-> FALSE, do |-> "send"]
    [] st = streamRemoteClose ->
         [state |-> streamClosed, closeStream |-> TRUE, do |-> "send"]
    [] st \in {streamClosed, streamReset} ->
         [state |-> st, closeStream |-> FALSE, do |-> "return"]
    [] OTHER -> [state |-> st, closeStream |-> FALSE, do |-> "panic"]

\* Lines 294-314: what the switch of Close does in state st: "send" (go to
\* SEND_CLOSE), "return" (nothing to do) or "panic" (the default case).
closeSwitch(st) ==
  CASE st \in {streamSYNSent, streamSYNReceived, streamEstablished} ->
         [state |-> streamLocalClose, closeStream |-> FALSE, do |-> "send"]
    [] st = streamRemoteClose ->
         [state |-> streamClosed, closeStream |-> TRUE, do |-> "send"]
    [] st \in {streamLocalClose, streamClosed, streamReset} ->
         [state |-> st, closeStream |-> FALSE, do |-> "return"]
    [] OTHER -> [state |-> st, closeStream |-> FALSE, do |-> "panic"]

\* Line 291.
CloseCall(c, maxCalls) ==
  /\ cl[c].pc = "idle"
  /\ calls.closes < maxCalls
  /\ calls' = [calls EXCEPT !.closes = @ + 1]
  /\ cl' = [cl EXCEPT ![c] = [IdleCloser EXCEPT !.pc = "lockState"]]
  /\ UNCHANGED <<streamVars, recvVars, sendVars, controlHdrLock, notifyVars,
                 deadlineVars, rd, wr, ss, fc, tch, sent, sessionVars,
                 byteVars, hist>>

\* Lines 293-318.  The panic of the default case unwinds Close with stateLock
\* still locked; the goroutine never runs again.
CloseLockState(c) ==
  /\ cl[c].pc = "lockState"
  /\ stateLock = NoProc
  /\ LET sw == closeSwitch(state)
     IN  /\ state' = sw.state
         /\ stateLock' = IF sw.do = "panic" THEN c ELSE NoProc
         /\ cl' = [cl EXCEPT ![c] = [@ EXCEPT
                      !.pc = CASE sw.do = "send" -> "scLockCtl"
                               [] sw.do = "return" -> "idle"
                               [] OTHER -> "panic",
                      !.closeStream = sw.closeStream,
                      !.from = state, !.to = sw.state]]
         /\ hist' = [hist EXCEPT !.closeReturned = @ \/ sw.do = "return"]
  /\ UNCHANGED <<recvVars, sendVars, controlHdrLock, notifyVars, deadlineVars,
                 rd, wr, ss, fc, tch, sent, sessionVars, byteVars, calls>>

\* Line 278.
CloseLockCtl(c) ==
  /\ cl[c].pc = "scLockCtl"
  /\ controlHdrLock = NoProc
  /\ controlHdrLock' = c
  /\ cl' = [cl EXCEPT ![c].pc = "scFlags"]
  /\ UNCHANGED <<streamVars, recvVars, sendVars, notifyVars, deadlineVars,
                 rd, wr, ss, fc, tch, sent, sessionVars, byteVars, hist,
                 calls>>

\* Lines 281-282.
CloseSendFlags(c) ==
  /\ cl[c].pc = "scFlags"
  /\ stateLock = NoProc
  /\ state' = sendFlags(state).state
  /\ cl' = [cl EXCEPT ![c].flags = sendFlags(state).flags \cup {flagFIN},
                      ![c].pc = "scSend"]
  /\ UNCHANGED <<stateLock, recvVars, sendVars, controlHdrLock, notifyVars,
                 deadlineVars, rd, wr, ss, fc, tch, sent, sessionVars,
                 byteVars, hist, calls>>

\* Lines 283-287; Close ignores the error (line 319).
CloseSend(c, ok) ==
  /\ cl[c].pc = "scSend"
  /\ sent' = waitForSendErr(sent,
               Frame(typeWindowUpdate, cl[c].flags, 0, <<>>, c), ok)
  /\ controlHdrLock' = NoProc
  /\ cl' = [cl EXCEPT ![c].pc = "notify"]
  /\ UNCHANGED <<streamVars, recvVars, sendVars, notifyVars, deadlineVars,
                 rd, wr, ss, fc, tch, sessionVars, byteVars, hist, calls>>

\* Lines 320-324.
CloseNotify(c) ==
  /\ cl[c].pc = "notify"
  /\ recvNotifyCh' = notifyWaiting(<<recvNotifyCh, sendNotifyCh>>)[1]
  /\ sendNotifyCh' = notifyWaiting(<<recvNotifyCh, sendNotifyCh>>)[2]
  /\ closeStreamCalled' = (closeStreamCalled \/ cl[c].closeStream)
  /\ cl' = [cl EXCEPT ![c].pc = "idle"]
  /\ hist' = [hist EXCEPT !.closeReturned = TRUE]
  /\ UNCHANGED <<streamVars, recvVars, sendVars, controlHdrLock, deadlineVars,
                 rd, wr, ss, fc, tch, sent, establishStreamCalled, byteVars,
                 calls>>

(***************************************************************************)
(* forceClose (lines 328-333).                                             *)
(***************************************************************************)
ForceCloseCall(maxCalls) ==
  /\ fc.pc = "idle"
  /\ calls.forces < maxCalls
  /\ calls' = [calls EXCEPT !.forces = @ + 1]
  /\ fc' = [fc EXCEPT !.pc = "lock"]
  /\ UNCHANGED <<streamVars, recvVars, sendVars, controlHdrLock, notifyVars,
                 deadlineVars, rd, wr, cl, ss, tch, sent, sessionVars,
                 byteVars, hist>>

\* Lines 329-331.
ForceCloseLock ==
  /\ fc.pc = "lock"
  /\ stateLock = NoProc
  /\ state' = streamClosed
  /\ fc' = [fc EXCEPT !.pc = "notify"]
  /\ hist' = [hist EXCEPT !.forced = TRUE]
  /\ UNCHANGED <<stateLock, recvVars, sendVars, controlHdrLock, notifyVars,
                 deadlineVars, rd, wr, cl, ss, tch, sent, sessionVars,
                 byteVars, calls>>

\* Line 332.
ForceCloseNotify ==
  /\ fc.pc = "notify"
  /\ recvNotifyCh' = notifyWaiting(<<recvNotifyCh, sendNotifyCh>>)[1]
  /\ sendNotifyCh' = notifyWaiting(<<recvNotifyCh, sendNotifyCh>>)[2]
  /\ fc' = [fc EXCEPT !.pc = "idle"]
  /\ UNCHANGED <<streamVars, recvVars, sendVars, controlHdrLock, deadlineVars,
                 rd, wr, cl, ss, tch, sent, sessionVars, byteVars, hist,
                 calls>>

(***************************************************************************)
(* Deadlines (lines 453-508) and the timeout observer (lines 547-568).     *)
(* A deadline t is the zero time, an instant in the past or an instant in  *)
(* the future.  timers holds the time.AfterFunc timers that are armed: the *)
(* runtime fires each of them once unless it is stopped first.             *)
(***************************************************************************)
Instants == {"zero", "past", "future"}

\* Lines 460-465 and 489-494: Stop() on the timer the stream remembers.
StopTimer(armed, dir, timer) == armed \ {<<dir, timer>>}

\* Lines 468 and 497: time.AfterFunc arms a new timer.
AfterFunc(armed, dir, id) == armed \cup {<<dir, id>>}

\* Lines 459-471: the timers armed after the call and the timer remembered.
setDeadlineTimers(armed, dir, timer, t, id) ==
  IF t \in {"zero", "past"}
  THEN [timers |-> IF timer # 0 THEN StopTimer(armed, dir, timer) ELSE armed,
        timer |-> 0]
  ELSE [timers |-> AfterFunc(armed, dir, id), timer |-> id]

\* Lines 453-457: under readDeadlineLock, clear the flag.
SetReadDeadlineCall(t, maxCalls) ==
  /\ dl.pc = "idle"
  /\ calls.deadlines < maxCalls
  /\ calls' = [calls EXCEPT !.deadlines = @ + 1]
  /\ readTimedOut' = 0
  /\ dl' = [pc |-> "readTimer", t |-> t]
  /\ UNCHANGED <<streamVars, recvVars, sendVars, controlHdrLock, notifyVars,
                 writeTimedOut, readTimer, writeTimer, timers, rd, wr, cl, ss,
                 fc, tch, sent, sessionVars, byteVars, hist>>

\* Lines 459-478.
SetReadDeadlineTimer ==
  /\ dl.pc = "readTimer"
  /\ LET out == setDeadlineTimers(timers, "read", readTimer, dl.t,
                                  calls.deadlines)
     IN  /\ timers' = out.timers
         /\ readTimer' = out.timer
  /\ readTimedOut' = IF dl.t = "past" THEN 1 ELSE readTimedOut
  /\ dl' = IdleDeadline
  /\ UNCHANGED <<streamVars, recvVars, sendVars, controlHdrLock, notifyVars,
                 writeTimedOut, writeTimer, rd, wr, cl, ss, fc, tch, sent,
                 sessionVars, byteVars, hist, calls>>

\* Lines 482-486.
SetWriteDeadlineCall(t, maxCalls) ==
  /\ dl.pc = "idle"
  /\ calls.deadlines < maxCalls
  /\ calls' = [calls EXCEPT !.deadlines = @ + 1]
  /\ writeTimedOut' = 0
  /\ dl' = [pc |-> "writeTimer", t |-> t]
  /\ UNCHANGED <<streamVars, recvVars, sendVars, controlHdrLock, notifyVars,
                 readTimedOut, readTimer, writeTimer, timers, rd, wr, cl, ss,
                 fc, tch, sent, sessionVars, byteVars, hist>>

\* Lines 488-507.
SetWriteDeadlineTimer ==
  /\ dl.pc = "writeTimer"
  /\ LET out == setDeadlineTimers(timers, "write", writeTimer, dl.t,
                                  calls.deadlines)
     IN  /\ timers' = out.timers
         /\ writeTimer' = out.timer
  /\ writeTimedOut' = IF dl.t = "past" THEN 1 ELSE writeTimedOut
  /\ dl' = IdleDeadline
  /\ UNCHANGED <<streamVars, recvVars, sendVars, controlHdrLock, notifyVars,
                 readTimedOut, readTimer, rd, wr, cl, ss, fc, tch, sent,
                 sessionVars, byteVars, hist, calls>>

\* Lines 468-470 and 497-499: an armed timer fires and its callback sets the
\* timed-out flag of its direction.
TimerFire(dir, id) ==
  /\ <<dir, id>> \in timers
  /\ timers' = timers \ {<<dir, id>>}
  /\ readTimedOut' = IF dir = "read" THEN 1 ELSE readTimedOut
  /\ writeTimedOut' = IF dir = "write" THEN 1 ELSE writeTimedOut
  /\ UNCHANGED <<streamVars, recvVars, sendVars, controlHdrLock, notifyVars,
                 readTimer, writeTimer, dl, rd, wr, cl, ss, fc, tch, sent,
                 sessionVars, byteVars, hist, calls>>

\* The observer of a call runs from timeoutObserver (lines 99, 174) to the
\* deferred cancel().
Observed(p) ==
  IF p \in Readers THEN rd[p].pc # "idle"
  ELSE wr[p].pc \in {"state", "window", "flags", "send", "sub", "select"}

\* Lines 555-559: on a tick the observer finds the flag set and closes the
\* call's timeout channel.
ObserverTick(p) ==
  /\ Observed(p)
  /\ ~tch[p]
  /\ IF p \in Readers THEN isReadTimedOut ELSE isWriteTimedOut
  /\ tch' = [tch EXCEPT ![p] = TRUE]
  /\ UNCHANGED <<streamVars, recvVars, sendVars, controlHdrLock, notifyVars,
                 deadlineVars, rd, wr, cl, ss, fc, sent, sessionVars,
                 byteVars, hist, calls>>

(***************************************************************************)
(* The session's calls on inbound frames: readData (lines 399-439) for a   *)
(* Data frame and incrSendWindow (lines 387-396) for a WindowUpdate frame. *)
(* Both start with processFlags (lines 337-378).                           *)
(***************************************************************************)

SessionReturn(err) == [IdleSession EXCEPT !.err = err]

\* The session hands the stream a Data frame: readData(hdr, flags, conn).
ReadDataCall(flags, length, maxCalls) ==
  /\ ss.pc = "idle"
  /\ calls.frames < maxCalls
  /\ calls' = [calls EXCEPT !.frames = @ + 1]
  /\ ss' = [IdleSession EXCEPT !.pc = "processFlags", !.kind = typeData,
                               !.flags = flags, !.length = length,
                               !.pre = state, !.post = state]
  /\ UNCHANGED <<streamVars, recvVars, sendVars, controlHdrLock, notifyVars,
                 deadlineVars, rd, wr, cl, fc, tch, sent, sessionVars,
                 byteVars, hist>>

\* The session hands the stream a WindowUpdate frame: incrSendWindow(hdr, flags).
IncrSendWindowCall(flags, length, maxCalls) ==
  /\ ss.pc = "idle"
  /\ calls.frames < maxCalls
  /\ calls' = [calls EXCEPT !.frames = @ + 1]
  /\ ss' = [IdleSession EXCEPT !.pc = "processFlags", !.kind = typeWindowUpdate,
                               !.flags = flags, !.length = length,
                               !.pre = state, !.post = state]
  /\ UNCHANGED <<streamVars, recvVars, sendVars, controlHdrLock, notifyVars,
                 deadlineVars, rd, wr, cl, fc, tch, sent, sessionVars,
                 byteVars, hist>>

\* A goroutine waiting in its select when an RST is processed on an
\* established stream is marked, so that its result can be stated later.
MarkReset(procs, mark) ==
  [p \in DOMAIN procs |->
     IF mark /\ procs[p].pc = "select" THEN [procs[p] EXCEPT !.rst = TRUE]
     ELSE procs[p]]

\* Lines 337-378, and what readData (400-408) and incrSendWindow (388-390) do
\* with the result.
ProcessFlags ==
  /\ ss.pc = "processFlags"
  /\ stateLock = NoProc
  /\ LET pf == processFlags(state, ss.flags)
         mark == pf.err = ErrNil /\ flagRST \in ss.flags
                 /\ state = streamEstablished
     IN  /\ state' = pf.state
         /\ IF pf.notify
            THEN /\ recvNotifyCh' = notifyWaiting(<<recvNotifyCh, sendNotifyCh>>)[1]
                 /\ sendNotifyCh' = notifyWaiting(<<recvNotifyCh, sendNotifyCh>>)[2]
            ELSE UNCHANGED notifyVars
         /\ closeStreamCalled' = (closeStreamCalled \/ pf.closeStream)
         /\ establishStreamCalled' = (establishStreamCalled \/ pf.establish)
         /\ rd' = MarkReset(rd, mark)
         /\ wr' = MarkReset(wr, mark)
         /\ hist' = [hist EXCEPT !.reset = @ \/ (pf.err = ErrNil /\ flagRST \in ss.flags)]
         /\ ss' = IF pf.err # ErrNil THEN SessionReturn(pf.err)
                  ELSE IF ss.kind = typeWindowUpdate
                  THEN [ss EXCEPT !.pc = "incrAdd", !.pre = state, !.post = pf.state]
                  ELSE IF ss.length = 0 THEN SessionReturn(ErrNil)
                  ELSE [ss EXCEPT !.pc = "rdLock", !.pre = state, !.post = pf.state]
  /\ UNCHANGED <<stateLock, recvVars, sendVars, controlHdrLock, deadlineVars,
                 cl, fc, tch, sent, byteVars, calls>>

\* Line 416.
WindowExceeded(length, rw) == length > rw

\* Lines 421-433 on the buffer: io.Copy appends the k bytes it got from the
\* connection (a nil buffer is allocated first).
CopyInto(buf, bytes) == [isNil |-> FALSE, bytes |-> buf.bytes \o bytes]

\* Lines 414-434 under recvLock.  io.Copy reads the frame's body from the
\* connection through a LimitedReader: it copies all length bytes ("ok"), or the
\* connection ends after k < length bytes and io.Copy returns nil ("eof"), or the
\* connection fails after k < length bytes ("err").  The result names the new
\* window and buffer, the error returned and whether recvLock was released.
\* A readData that charges the window before it checks it.
readDataLockedCharged(rw, buf, length, k, res, first) ==
  IF WindowExceeded(length, rw)
  THEN [recvWindow |-> SubU32(rw, length), recvBuf |-> buf,
        err |-> ErrRecvWindowExceeded, unlocked |-> FALSE]
  ELSE IF res = "err"
  THEN [recvWindow |-> rw, recvBuf |-> CopyInto(buf, ConnBytes(first, k)),
        err |-> ErrCopy, unlocked |-> TRUE]
  ELSE [recvWindow |-> SubU32(rw, length),
        recvBuf |-> CopyInto(buf, ConnBytes(first, k)),
        err |-> ErrNil, unlocked |-> TRUE]

readDataLocked(rw, buf, length, k, res, first) ==
  IF WindowExceeded(length, rw)
  THEN [recvWindow |-> rw, recvBuf |-> buf, err |-> ErrRecvWindowExceeded,
        unlocked |-> FALSE]
  ELSE IF res = "err"
  THEN [recvWindow |-> rw, recvBuf |-> CopyInto(buf, ConnBytes(first, k)),
        err |-> ErrCopy, unlocked |-> TRUE]
  ELSE [recvWindow |-> SubU32(rw, length),
        recvBuf |-> CopyInto(buf, ConnBytes(first, k)),
        err |-> ErrNil, unlocked |-> TRUE]

CopyOutcomes(length) ==
  {<<length, "ok">>} \cup {<<k, res>> : k \in 0..(length - 1), res \in {"eof", "err"}}

ReadDataLock(k, res) ==
  /\ ss.pc = "rdLock"
  /\ recvLock = NoProc
  /\ <<k, res>> \in CopyOutcomes(ss.length)
  /\ LET out == readDataLocked(recvWindow, recvBuf, ss.length, k, res, nextByte)
         copied == out.err # ErrRecvWindowExceeded
     IN  /\ WindowExceeded(ss.length, recvWindow) => <<k, res>> = <<ss.length, "ok">>
         /\ recvWindow' = out.recvWindow
         /\ recvBuf' = out.recvBuf
         /\ recvLock' = IF out.unlocked THEN NoProc ELSE Sess
         /\ nextByte' = IF copied THEN nextByte + k ELSE nextByte
         /\ accepted' = IF out.err = ErrNil
                        THEN accepted \o ConnBytes(nextByte, k) ELSE accepted
         /\ hist' = [hist EXCEPT !.readErr = @ \/ out.err = ErrCopy]
         /\ ss' = IF out.err = ErrNil THEN [ss EXCEPT !.pc = "rdNotify"]
                  ELSE SessionReturn(out.err)
  /\ UNCHANGED <<streamVars, sendVars, controlHdrLock, notifyVars, deadlineVars,
                 rd, wr, cl, fc, tch, sent, sessionVars, delivered, calls>>

\* Lines 436-438.
ReadDataNotify ==
  /\ ss.pc = "rdNotify"
  /\ recvNotifyCh' = asyncNotify(recvNotifyCh)
  /\ ss' = SessionReturn(ErrNil)
  /\ UNCHANGED <<streamVars, recvVars, sendVars, controlHdrLock, sendNotifyCh,
                 deadlineVars, rd, wr, cl, fc, tch, sent, sessionVars,
                 byteVars, hist, calls>>

\* Line 393: atomic.AddUint32(&s.sendWindow, hdr.Length()).
IncrAdd ==
  /\ ss.pc = "incrAdd"
  /\ sendWindow' = AddU32(sendWindow, ss.length)
  /\ hist' = [hist EXCEPT !.credit = @ + ss.length]
  /\ ss' = [ss EXCEPT !.pc = "incrNotify"]
  /\ wr' = [w \in Writers |->
              IF wr[w].pc \notin {"idle", "lock"}
              THEN [wr[w] EXCEPT !.trace = Append(@, <<"credit", ss.length>>)]
              ELSE wr[w]]
  /\ UNCHANGED <<streamVars, recvVars, sendLock, controlHdrLock, notifyVars,
                 deadlineVars, rd, cl, fc, tch, sent, sessionVars, byteVars, calls>>

\* Lines 394-395.
IncrNotify ==
  /\ ss.pc = "incrNotify"
  /\ sendNotifyCh' = asyncNotify(sendNotifyCh)
  /\ ss' = SessionReturn(ErrNil)
  /\ UNCHANGED <<streamVars, recvVars, sendVars, controlHdrLock, recvNotifyCh,
                 deadlineVars, rd, wr, cl, fc, tch, sent, sessionVars,
                 byteVars, hist, calls>>

(***************************************************************************)
(* Shrink (lines 513-519): one critical section of recvLock.               *)
(***************************************************************************)
\* A Shrink that releases the buffer whenever one is allocated.
ShrinkBufAlways(buf) ==
  IF ~buf.isNil THEN [isNil |-> TRUE, bytes |-> <<>>] ELSE buf

ShrinkBuf(buf) ==
  IF ~buf.isNil /\ Len(buf.bytes) = 0 THEN [isNil |-> TRUE, bytes |-> <<>>]
  ELSE buf

Shrink ==
  /\ recvLock = NoProc
  /\ recvBuf' = ShrinkBuf(recvBuf)
  /\ recvBuf' # recvBuf
  /\ UNCHANGED <<streamVars, recvWindow, recvLock, sendVars, controlHdrLock,
                 notifyVars, deadlineVars, rd, wr, cl, ss, fc, tch, sent,
                 sessionVars, byteVars, hist, calls>>

\* The calls made so far, and the calls of one kind still allowed: a run makes
\* at most MaxOps calls in all.
TotalCalls ==
  calls.reads + calls.writes + calls.closes + calls.frames + calls.forces
    + calls.deadlines

Budget(ops, max) == IF TotalCalls < ops THEN max ELSE 0

Quota(max) == Budget(MaxOps, max)

(***************************************************************************)
(* The receive path alone: two user goroutines in Read, the session        *)
(* delivering Data frames, and Shrink.                                     *)
(***************************************************************************)
RecvFlagSets == {{}, {flagFIN}, {flagRST}}

InitRecv == \E st \in {streamInit, streamSYNReceived} : newStream(st)

NextRecv ==
  \/ \E r \in Readers, n \in 1..MaxLen : ReadCall(r, n, MaxReads)
  \/ \E r \in Readers : ReadLockState(r)
  \/ \E r \in Readers : ReadCheckEOF(r)
  \/ \E r \in Readers : ReadLockRecv(r)
  \/ \E r \in Readers : ReadWake(r)
  \/ \E r \in Readers : SwuLockCtl(r)
  \/ \E r \in Readers : SwuLockRecv(r)
  \/ \E r \in Readers : SwuSendFlags(r)
  \/ \E r \in Readers : SwuSend(r, TRUE)
  \/ \E f \in RecvFlagSets, n \in 0..MaxLen : ReadDataCall(f, n, MaxFrames)
  \/ ProcessFlags
  \/ \E k \in 0..MaxLen, res \in {"ok", "eof", "err"} : ReadDataLock(k, res)
  \/ ReadDataNotify
  \/ Shrink

SpecRecv == InitRecv /\ [][NextRecv]_vars


(***************************************************************************)
(* The send path alone: two user goroutines in Write and the session       *)
(* delivering WindowUpdate frames.                                         *)
(***************************************************************************)
SendFlagSets == {{}, {flagRST}}

InitSend == \E st \in {streamInit, streamSYNReceived} : newStream(st)

NextSend ==
  \/ \E w \in Writers, n \in 0..(MaxLen + 1) : WriteCall(w, n, MaxWrites)
  \/ \E w \in Writers : WriteLock(w)
  \/ \E w \in Writers : WriteState(w)
  \/ \E w \in Writers : WriteWindow(w)
  \/ \E w \in Writers : WriteSendFlags(w)
  \/ \E w \in Writers, ok \in BOOLEAN : WriteSend(w, ok)
  \/ \E w \in Writers : WriteSub(w)
  \/ \E w \in Writers : WriteWake(w)
  \/ \E f \in SendFlagSets, n \in 0..MaxLen : IncrSendWindowCall(f, n, MaxFrames)
  \/ ProcessFlags
  \/ IncrAdd
  \/ IncrNotify

SpecSend == InitSend /\ [][NextSend]_vars

(***************************************************************************)
(* The whole stream: a user goroutine in Write, one in Read, two in Close, *)
(* and the session delivering Data and WindowUpdate frames and calling     *)
(* forceClose.                                                             *)
(***************************************************************************)
StreamFlagSets == {{}, {flagACK}, {flagFIN}, {flagRST}}

InitStream == \E st \in {streamInit, streamSYNReceived} : newStream(st)

NextStream ==
  \/ \E n \in {0, 1, InitialStreamWindow + 1} :
        WriteCall("w1", n, Quota(MaxWrites))
  \/ WriteLock("w1")
  \/ WriteState("w1")
  \/ WriteWindow("w1")
  \/ WriteSendFlags("w1")
  \/ WriteSend("w1", TRUE)
  \/ WriteSub("w1")
  \/ WriteWake("w1")
  \/ ReadCall("r1", 1, Quota(MaxReads))
  \/ ReadLockState("r1")
  \/ ReadCheckEOF("r1")
  \/ ReadLockRecv("r1")
  \/ ReadWake("r1")
  \/ SwuLockCtl("r1")
  \/ SwuLockRecv("r1")
  \/ SwuSendFlags("r1")
  \/ SwuSend("r1", TRUE)
  \/ CloseCall("c1", Quota(MaxCloses))
  \/ (cl["c1"].pc # "idle" /\ CloseCall("c2", Quota(MaxCloses)))
  \/ \E c \in Closers : CloseLockState(c)
  \/ \E c \in Closers : CloseLockCtl(c)
  \/ \E c \in Closers : CloseSendFlags(c)
  \/ \E c \in Closers, ok \in BOOLEAN : CloseSend(c, ok)
  \/ \E c \in Closers : CloseNotify(c)
  \/ ForceCloseCall(Quota(MaxForces))
  \/ ForceCloseLock
  \/ ForceCloseNotify
  \/ \E f \in StreamFlagSets : ReadDataCall(f, 1, Quota(MaxFrames))
  \/ \E f \in {{}, {flagACK}} : IncrSendWindowCall(f, 1, Quota(MaxFrames))
  \/ ProcessFlags
  \/ ReadDataLock(1, "ok")
  \/ ReadDataNotify
  \/ IncrAdd
  \/ IncrNotify

SpecStream == InitStream /\ [][NextStream]_vars

(***************************************************************************)
(* The steps of each goroutine once its call has begun.  The Go scheduler  *)
(* runs every runnable goroutine, the observer's ticker keeps ticking and  *)
(* the runtime fires an armed timer, so each of these is weakly fair.      *)
(***************************************************************************)
ReadLoopStep(r) ==
  \/ ReadLockState(r)
  \/ ReadCheckEOF(r)
  \/ ReadLockRecv(r)
  \/ ReadWake(r)
  \/ ReadTimeout(r)

WindowUpdateStep(r) ==
  \/ SwuLockCtl(r)
  \/ SwuLockRecv(r)
  \/ SwuSendFlags(r)
  \/ SwuSend(r, TRUE)

ReaderStep(r) == ReadLoopStep(r) \/ WindowUpdateStep(r)

WriterStep(w) ==
  \/ WriteLock(w)
  \/ WriteState(w)
  \/ WriteWindow(w)
  \/ WriteSendFlags(w)
  \/ WriteSend(w, TRUE)
  \/ WriteSub(w)
  \/ WriteWake(w)
  \/ WriteTimeout(w)

ReadDataStep ==
  \/ \E k \in 0..MaxLen : ReadDataLock(k, "ok")
  \/ ReadDataNotify

IncrSendWindowStep == IncrAdd \/ IncrNotify

SessionStep == ProcessFlags \/ ReadDataStep \/ IncrSendWindowStep

ForcerStep == ForceCloseLock \/ ForceCloseNotify

DeadlineStep == SetReadDeadlineTimer \/ SetWriteDeadlineTimer

(***************************************************************************)
(* A remotely opened stream on which two Reads block on the empty buffer   *)
(* and a Write blocks on the exhausted window; the peer sends a            *)
(* WindowUpdate frame, with RST or without, the session shuts down and a   *)
(* deadline expires.  No Data frame arrives, so a Read never reaches       *)
(* sendWindowUpdate.                                                       *)
(***************************************************************************)
ResetFlagSets == {{}, {flagRST}}

InitReset == newStream(streamSYNReceived)

NextReset ==
  \/ \E r \in Readers : ReadCall(r, 1, Quota(MaxReads))
  \/ \E r \in Readers : ReadLoopStep(r)
  \/ WriteCall("w1", InitialStreamWindow + 1, Quota(1))
  \/ WriterStep("w1")
  \/ \E f \in ResetFlagSets : IncrSendWindowCall(f, 1, Quota(1))
  \/ ProcessFlags
  \/ IncrSendWindowStep
  \/ ForceCloseCall(Quota(MaxForces))
  \/ ForcerStep
  \/ SetReadDeadlineCall("past", Quota(1))
  \/ SetWriteDeadlineCall("past", Quota(1))
  \/ DeadlineStep
  \/ \E p \in Readers \cup {"w1"} : ObserverTick(p)

FairReset ==
  /\ \A r \in Readers : WF_vars(ReadLoopStep(r)) /\ WF_vars(ObserverTick(r))
  /\ WF_vars(WriterStep("w1")) /\ WF_vars(ObserverTick("w1"))
  /\ WF_vars(ProcessFlags \/ IncrSendWindowStep)
  /\ WF_vars(ForcerStep)
  /\ WF_vars(DeadlineStep)

SpecReset == InitReset /\ [][NextReset]_vars /\ FairReset

(***************************************************************************)
(* Wakeups: two Reads and a Write on a remotely opened stream, the peer    *)
(* sending Data frames within the receive window, with FIN or without,    *)
(* and WindowUpdate frames.  No deadline is set, the stream is not reset   *)
(* and no send fails, so a blocked call can only be released through its   *)
(* notify channel.                                                         *)
(***************************************************************************)
WakeFlagSets == {{}, {flagFIN}}

InitWake == newStream(streamSYNReceived)

NextWake ==
  \/ \E r \in Readers : ReadCall(r, 1, Quota(MaxReads))
  \/ \E r \in Readers : ReadLockState(r)
  \/ \E r \in Readers : ReadCheckEOF(r)
  \/ \E r \in Readers : ReadLockRecv(r)
  \/ \E r \in Readers : ReadWake(r)
  \/ \E r \in Readers : WindowUpdateStep(r)
  \/ WriteCall("w1", InitialStreamWindow + 1, Quota(1))
  \/ WriteLock("w1")
  \/ WriteState("w1")
  \/ WriteWindow("w1")
  \/ WriteSendFlags("w1")
  \/ WriteSend("w1", TRUE)
  \/ WriteSub("w1")
  \/ WriteWake("w1")
  \/ \E f \in WakeFlagSets, n \in 1..MaxLen :
        n <= recvWindow /\ ReadDataCall(f, n, Quota(MaxFrames))
  \/ IncrSendWindowCall({}, 1, Quota(MaxFrames))
  \/ SessionStep

FairWake ==
  /\ \A r \in Readers : WF_vars(ReaderStep(r))
  /\ WF_vars(WriterStep("w1"))
  /\ WF_vars(SessionStep)

SpecWake == InitWake /\ [][NextWake]_vars /\ FairWake

(***************************************************************************)
(* Deadlines: a Read and a Write on a remotely opened stream while the     *)
(* user sets read and write deadlines, the armed timers fire and the       *)
(* observers tick.  The peer sends Data frames without flags and no        *)
(* WindowUpdate, so a Write that has used up the window stays blocked      *)
(* until its deadline.                                                     *)
(***************************************************************************)
InitDeadline == newStream(streamSYNReceived)

\* One call more than elsewhere: a frame, a Read and a Write, and a deadline
\* for each direction.
DeadlineQuota(max) == Budget(MaxOps + 1, max)

NextDeadline ==
  \/ ReadCall("r1", 1, DeadlineQuota(MaxReads))
  \/ ReadLockState("r1")
  \/ ReadLockRecv("r1")
  \/ ReadWake("r1")
  \/ ReadTimeout("r1")
  \/ WindowUpdateStep("r1")
  \/ \E n \in {0, InitialStreamWindow + 1} : WriteCall("w1", n, DeadlineQuota(MaxWrites))
  \/ WriteLock("w1")
  \/ WriteState("w1")
  \/ WriteWindow("w1")
  \/ WriteSendFlags("w1")
  \/ WriteSend("w1", TRUE)
  \/ WriteSub("w1")
  \/ WriteTimeout("w1")
  \/ \E t \in Instants : SetReadDeadlineCall(t, DeadlineQuota(MaxDeadlineCalls))
  \/ \E t \in Instants : SetWriteDeadlineCall(t, DeadlineQuota(MaxDeadlineCalls))
  \/ DeadlineStep
  \/ \E dir \in {"read", "write"}, id \in 1..(MaxOps + 1) : TimerFire(dir, id)
  \/ \E p \in {"r1", "w1"} : ObserverTick(p)
  \/ ReadDataCall({}, 1, DeadlineQuota(1))
  \/ ProcessFlags
  \/ ReadDataStep

FairDeadline ==
  /\ WF_vars(ReaderStep("r1")) /\ WF_vars(ObserverTick("r1"))
  /\ WF_vars(WriterStep("w1")) /\ WF_vars(ObserverTick("w1"))
  /\ WF_vars(SessionStep)
  /\ WF_vars(DeadlineStep)

SpecDeadline == InitDeadline /\ [][NextDeadline]_vars /\ FairDeadline

(***************************************************************************)
(* A freshly created stream used by three user goroutines at once: one in  *)
(* Write, one in Read and one in Close, while the peer sends Data frames   *)
(* without flags.  Every send succeeds, the session does not shut down and *)
(* no deadline is set.                                                     *)
(***************************************************************************)
InitOpen == \E st \in {streamInit, streamSYNReceived} : newStream(st)

NextOpen ==
  \/ \E n \in 1..MaxLen : WriteCall("w1", n, Quota(MaxWrites))
  \/ WriteLock("w1")
  \/ WriteState("w1")
  \/ WriteWindow("w1")
  \/ WriteSendFlags("w1")
  \/ WriteSend("w1", TRUE)
  \/ WriteSub("w1")
  \/ ReadCall("r1", 1, Quota(MaxReads))
  \/ ReadLockState("r1")
  \/ ReadCheckEOF("r1")
  \/ ReadLockRecv("r1")
  \/ ReadWake("r1")
  \/ WindowUpdateStep("r1")
  \/ CloseCall("c1", Quota(MaxCloses))
  \/ CloseLockState("c1")
  \/ CloseLockCtl("c1")
  \/ CloseSendFlags("c1")
  \/ CloseSend("c1", TRUE)
  \/ CloseNotify("c1")
  \/ ReadDataCall({}, 1, Quota(MaxFrames))
  \/ ProcessFlags
  \/ ReadDataStep

SpecOpen == InitOpen /\ [][NextOpen]_vars

(***************************************************************************)
(* Which lock a goroutine is waiting for, and the wait-for relation.       *)
(***************************************************************************)
Procs == Readers \cup Writers \cup Closers \cup {Sess, Forcer}

Locks == [stateLock |-> stateLock, recvLock |-> recvLock,
          sendLock |-> sendLock, controlHdrLock |-> controlHdrLock]

ReaderWaits(pc) ==
  CASE pc \in {"lockState", "swuFlags"} -> "stateLock"
    [] pc \in {"lockRecvEOF", "lockRecv", "swuLockRecv"} -> "recvLock"
    [] pc = "swuLockCtl" -> "controlHdrLock"
    [] OTHER -> "none"

WriterWaits(pc) ==
  CASE pc = "lock" -> "sendLock"
    [] pc \in {"state", "flags"} -> "stateLock"
    [] OTHER -> "none"

CloserWaits(pc) ==
  CASE pc \in {"lockState", "scFlags"} -> "stateLock"
    [] pc = "scLockCtl" -> "controlHdrLock"
    [] OTHER -> "none"

SessionWaits(pc) ==
  CASE pc = "processFlags" -> "stateLock"
    [] pc = "rdLock" -> "recvLock"
    [] OTHER -> "none"

WaitsFor(p) ==
  IF p \in Readers THEN ReaderWaits(rd[p].pc)
  ELSE IF p \in Writers THEN WriterWaits(wr[p].pc)
  ELSE IF p \in Closers THEN CloserWaits(cl[p].pc)
  ELSE IF p = Sess THEN SessionWaits(ss.pc)
  ELSE IF fc.pc = "lock" THEN "stateLock" ELSE "none"

\* The goroutine that holds the lock p is blocked on, or NoProc.
BlockedBy(p) == IF WaitsFor(p) = "none" THEN NoProc ELSE Locks[WaitsFor(p)]

RECURSIVE Chain(_, _)
Chain(p, n) ==
  IF n = 0 \/ p = NoProc THEN {}
  ELSE {BlockedBy(p)} \cup Chain(BlockedBy(p), n - 1)

\* p waits for a lock whose holder waits, directly or through others, for a
\* lock that p holds.
InLockCycle(p) == p \in Chain(p, Cardinality(Procs))

(***************************************************************************)
(* C1: as long as every readData returned nil, the bytes the Reads have    *)
(* returned so far, followed by the bytes still in recvBuf, are exactly    *)
(* the bytes the accepted data frames brought in, in arrival order: none   *)
(* is lost, duplicated or reordered by Read or by Shrink.                  *)
(***************************************************************************)
C1_BytesConserved ==
  ~hist.readErr => delivered \o recvBuf.bytes = accepted

\* Two frames have been accepted around a Read: bytes were delivered, a window
\* update let the second frame in, and bytes are waiting in the buffer.
C1_Witness ==
  /\ ~hist.readErr
  /\ Len(delivered) >= 2
  /\ Len(recvBuf.bytes) >= 1
  /\ calls.frames = 2

(***************************************************************************)
(* C4: a data frame longer than recvWindow is refused with                 *)
(* RecvWindowExceeded and the refusal leaves recvWindow and recvBuf as     *)
(* they were; the state is left as processFlags put it, which is the       *)
(* state before the call when the frame carries none of ACK, FIN, RST.     *)
(***************************************************************************)
C4_Refusal ==
  /\ ss.pc = "rdLock"
  /\ ss'.pc = "idle"
  /\ ss'.err = ErrRecvWindowExceeded

C8_NoLockCycle == \A p \in Procs : ~InLockCycle(p)


(***************************************************************************)
(* Sums over the frames handed to the session.                             *)
(***************************************************************************)
IsData(f) == f.type = typeData

RECURSIVE SumLength(_)
SumLength(fs) == IF fs = <<>> THEN 0 ELSE Head(fs).length + SumLength(Tail(fs))

RECURSIVE Bodies(_)
Bodies(fs) == IF fs = <<>> THEN <<>> ELSE Head(fs).body \o Bodies(Tail(fs))

DataFrames == SelectSeq(sent, IsData)

DataTotal == SumLength(DataFrames)

FramesBy(who) == SelectSeq(DataFrames, LAMBDA f : f.by = who)

\* The bytes of frames already sent that their writers have not yet taken off
\* sendWindow (between lines 203 and 208).
RECURSIVE SumPending(_)
SumPending(ws) ==
  IF ws = {} THEN 0
  ELSE LET w == CHOOSE x \in ws : TRUE
       IN  (IF wr[w].pc = "sub" THEN wr[w].max ELSE 0) + SumPending(ws \ {w})

(***************************************************************************)
(* C2: a Data frame is never longer than sendWindow when it is emitted,    *)
(* the Data bytes emitted never exceed InitialStreamWindow plus the credit *)
(* received through incrSendWindow, and sendWindow is exactly that credit  *)
(* less the bytes emitted and accounted: it never wraps below zero and     *)
(* moves only by a frame's length down or a received delta up.             *)
(***************************************************************************)
C2_SendWindowRespected ==
  /\ \A w \in Writers :
       wr[w].pc = "send" => (1 <= wr[w].max /\ wr[w].max <= sendWindow)
  /\ DataTotal <= InitialStreamWindow + hist.credit
  /\ sendWindow + DataTotal - SumPending(Writers)
       = InitialStreamWindow + hist.credit

\* The writers have emitted more Data bytes than the initial window, using
\* credit that incrSendWindow added.
C2_Witness ==
  /\ hist.credit >= 1
  /\ DataTotal > InitialStreamWindow
  /\ sendWindow = InitialStreamWindow + hist.credit - DataTotal

(***************************************************************************)
(* C3: a Write that returned nil returned len(b) and its Data frames carry *)
(* b in order; the Data frames of one Write are contiguous among the Data  *)
(* frames; and a Write of L bytes that starts with a window W, 0 < W < L,  *)
(* emits a frame of exactly W bytes before any credit arrives and, when    *)
(* the credit L - W arrives next, a frame of exactly L - W bytes.          *)
(***************************************************************************)
C3_WriteDone(w) ==
  (wr[w].pc = "idle" /\ wr[w].id > 0 /\ wr[w].err = ErrNil) =>
     /\ wr[w].n = wr[w].len
     /\ Bodies(FramesBy(<<w, wr[w].id>>)) = UserBytes(w, wr[w].id, wr[w].len)

C3_Contiguous ==
  \A i, j, k \in DOMAIN DataFrames :
     (i < j /\ j < k /\ DataFrames[i].by = DataFrames[k].by) =>
        DataFrames[j].by = DataFrames[i].by

C3_Scenario(w) ==
  LET t == wr[w].trace
      W == wr[w].start
      L == wr[w].len
  IN  (wr[w].id > 0 /\ wr[w].pc # "lock" /\ 0 < W /\ W < L) =>
         /\ (Len(t) >= 1 /\ t[1][1] = "frame") => t[1][2] = W
         /\ (Len(t) >= 3 /\ t[1][1] = "frame" /\ t[2] = <<"credit", L - W>>
               /\ t[3][1] = "frame") => t[3][2] = L - W

C3_WriteFramesInOrder ==
  /\ \A w \in Writers : C3_WriteDone(w) /\ C3_Scenario(w)
  /\ C3_Contiguous

\* The scenario: a Write of one byte more than the window has emitted a frame
\* filling the window and, after a credit of one, a frame of one byte, and is
\* about to return len(b).
C3_Witness ==
  \E w \in Writers :
     /\ wr[w].pc = "sub"
     /\ wr[w].start = InitialStreamWindow
     /\ wr[w].len = InitialStreamWindow + 1
     /\ wr[w].total + wr[w].max = wr[w].len
     /\ wr[w].trace = << <<"frame", InitialStreamWindow>>, <<"credit", 1>>,
                         <<"frame", 1>> >>

(***************************************************************************)
(* C5: the frames the stream hands to the session carry SYN at most once,  *)
(* ACK at most once, FIN at most once and never RST; a Close that finds    *)
(* the stream in LocalClose, Closed or Reset leaves the state as it is and *)
(* never enters sendClose.                                                 *)
(***************************************************************************)
FlagCount(f) == Cardinality({i \in DOMAIN sent : f \in sent[i].flags})

CloseNoOpStates == {streamLocalClose, streamClosed, streamReset}

C5_CloseNoOp(c) ==
  (cl[c].pc \notin {"idle", "lockState"} \/ cl[c].to # cl[c].from) =>
     cl[c].from \notin CloseNoOpStates

C5_FlagsAtMostOnce ==
  /\ FlagCount(flagSYN) <= 1
  /\ FlagCount(flagACK) <= 1
  /\ FlagCount(flagFIN) <= 1
  /\ FlagCount(flagRST) = 0
  /\ \A c \in Closers : C5_CloseNoOp(c)

\* A frame with ACK and a frame with FIN have gone out, and a second Close has
\* found the stream in LocalClose and returned.
C5_Witness ==
  /\ FlagCount(flagACK) = 1
  /\ FlagCount(flagFIN) = 1
  /\ calls.closes = 2
  /\ \E c \in Closers :
        /\ cl[c].pc = "idle"
        /\ cl[c].from = streamLocalClose
        /\ cl[c].to = streamLocalClose

(***************************************************************************)
(* C6: a Write of at least one byte called after a Close has returned      *)
(* emits no frame and returns StreamClosed, or ConnectionReset when an RST *)
(* has been processed; a Read called after a Close has returned returns    *)
(* bytes of the receive buffer, or EOF with n = 0, or ConnectionReset with *)
(* n = 0 when an RST has been processed.                                   *)
(***************************************************************************)
C6_LateWrite(w) ==
  wr[w].late =>
    /\ wr[w].pc \in {"idle", "lock", "state"}
    /\ FramesBy(<<w, wr[w].id>>) = <<>>
    /\ wr[w].pc = "idle" =>
         \/ wr[w].len = 0 /\ wr[w].n = 0 /\ wr[w].err = ErrNil
         \/ wr[w].len > 0 /\ wr[w].n = 0 /\ wr[w].err = ErrStreamClosed
         \/ wr[w].len > 0 /\ wr[w].n = 0 /\ wr[w].err = ErrConnectionReset
              /\ hist.reset

C6_LateRead(r) ==
  (rd[r].late /\ rd[r].pc = "idle") =>
     \/ rd[r].n >= 1 /\ rd[r].err = ErrNil
     \/ rd[r].n = 0 /\ rd[r].err = ErrEOF
     \/ rd[r].n = 0 /\ rd[r].err = ErrConnectionReset /\ hist.reset

C6_AfterClose ==
  /\ \A w \in Writers : C6_LateWrite(w)
  /\ \A r \in Readers : C6_LateRead(r)
  /\ (~hist.readErr => delivered \o recvBuf.bytes = accepted)

\* After a Close returned, a Read has returned a byte of the buffer and a
\* Write has been refused with StreamClosed.
C6_Witness ==
  /\ rd["r1"].late /\ rd["r1"].pc = "idle" /\ rd["r1"].n = 1
  /\ wr["w1"].late /\ wr["w1"].pc = "idle" /\ wr["w1"].len > 0
  /\ wr["w1"].err = ErrStreamClosed

\* C6 as stated, for Writes of at least one byte: every Write after Close
\* returns StreamClosed, every Read after Close returns buffered bytes or EOF.
C6_Original ==
  /\ \A w \in Writers :
        (wr[w].late /\ wr[w].pc = "idle" /\ wr[w].len > 0) =>
           wr[w].err = ErrStreamClosed
  /\ \A r \in Readers :
        (rd[r].late /\ rd[r].pc = "idle") =>
           \/ rd[r].n >= 1 /\ rd[r].err = ErrNil
           \/ rd[r].n = 0 /\ rd[r].err = ErrEOF

(***************************************************************************)
(* C7: processing an RST on an Established stream sets the state to Reset, *)
(* requests closeStream and fills both notify channels; a Read or Write    *)
(* that was blocked in its select at that moment eventually returns, with  *)
(* ConnectionReset unless its deadline had expired (Timeout) or forceClose *)
(* has run since (the state is Closed by then).                            *)
(***************************************************************************)
C7_ResetStep ==
  /\ ss.pc = "processFlags"
  /\ ss'.pc # "processFlags"
  /\ flagRST \in ss.flags
  /\ state = streamEstablished

\* p was blocked when the RST was processed and its call is still running.
C7_Pending(p) ==
  IF p \in Readers THEN rd[p].rst /\ rd[p].pc # "idle"
  ELSE wr[p].rst /\ wr[p].pc # "idle"

\* p was blocked when the RST was processed and its call has returned err.
C7_Returned(p, err) ==
  IF p \in Readers THEN rd[p].rst /\ rd[p].pc = "idle" /\ rd[p].err = err
  ELSE wr[p].rst /\ wr[p].pc = "idle" /\ wr[p].err = err

C9_ReadBlocked ==
  /\ Len(recvBuf.bytes) > 0
  /\ \E r \in Readers : rd[r].pc = "select"

C9_WriteBlocked(w) == wr[w].pc = "select" /\ sendWindow # 0

C9_NoLostWakeup ==
  /\ \A k \in 0..MaxOps :
        (C9_ReadBlocked /\ hist.dataReads = k) ~> (hist.dataReads > k)
  /\ \A w \in Writers : C9_WriteBlocked(w) ~> (wr[w].pc = "sub")

(***************************************************************************)
(* C10: a Read (Write) waiting in its select while the read (write)        *)
(* timed-out flag is set returns Timeout, unless the flag is cleared again *)
(* or, for a Read, data arrives and the Read returns it; a Read, and a     *)
(* Write of at least one byte, that finds the flag set when it starts      *)
(* returns Timeout in that step, leaving recvBuf and the frames sent as    *)
(* they were.                                                              *)
(***************************************************************************)
C10_ReadStart(r) == rd[r].pc = "idle" /\ rd'[r] # rd[r] /\ readTimedOut # 0

C10_WriteStart(w) == wr[w].pc = "lock" /\ wr'[w] # wr[w] /\ writeTimedOut # 0

C10_TimedOutAtOnce(pre, post) ==
  /\ post.pc = "idle" /\ post.n = 0 /\ post.err = ErrTimeout
  /\ UNCHANGED <<recvBuf, delivered, sent, state>>

C10_ReadDone(r) ==
  rd[r].pc = "idle" /\ (rd[r].err = ErrTimeout \/ rd[r].n > 0)

C10_WriteDone(w) == wr[w].pc = "idle" /\ wr[w].err = ErrTimeout

C10_DeadlineObserved ==
  /\ [][\A r \in Readers :
          C10_ReadStart(r) => C10_TimedOutAtOnce(rd[r], rd'[r])]_vars
  /\ [][\A w \in Writers :
          (C10_WriteStart(w) /\ wr[w].len > 0) =>
             C10_TimedOutAtOnce(wr[w], wr'[w])]_vars
  /\ [](\A r \in Readers :
          (rd[r].pc = "idle" /\ rd[r].n > 0) => calls.frames >= 1)
  /\ \A r \in Readers :
        (rd[r].pc = "select" /\ readTimedOut # 0)
           ~> (C10_ReadDone(r) \/ readTimedOut = 0)
  /\ \A w \in Writers :
        (wr[w].pc = "select" /\ writeTimedOut # 0)
           ~> (C10_WriteDone(w) \/ writeTimedOut = 0)

\* A Read blocked on the empty buffer and a Write blocked on the exhausted
\* window are both still in their select, both flags are set and both
\* observers have closed their timeout channel.
C10_Witness ==
  /\ rd["r1"].pc = "select" /\ readTimedOut # 0 /\ tch["r1"]
  /\ wr["w1"].pc = "select" /\ writeTimedOut # 0 /\ tch["w1"]
  /\ wr["w1"].total = InitialStreamWindow

\* C10 as stated: every Read or Write that starts with the flag set returns
\* Timeout, and a blocked call returns Timeout once the flag has been set (for
\* a Read: when no frame is being processed or still to come and no notify is
\* pending).
C10_Original ==
  /\ [][\A r \in Readers :
          C10_ReadStart(r) => C10_TimedOutAtOnce(rd[r], rd'[r])]_vars
  /\ [][\A w \in Writers :
          C10_WriteStart(w) => C10_TimedOutAtOnce(wr[w], wr'[w])]_vars
  /\ \A r \in Readers :
        (rd[r].pc = "select" /\ readTimedOut # 0 /\ ss.pc = "idle"
           /\ recvNotifyCh = 0 /\ Len(recvBuf.bytes) = 0
           /\ calls.frames = 1)
           ~> (rd[r].pc = "idle" /\ rd[r].err = ErrTimeout)
  /\ \A w \in Writers :
        (wr[w].pc = "select" /\ writeTimedOut # 0)
           ~> C10_WriteDone(w)

(***************************************************************************)
(* C11: a timer that fires and sets the read (write) timed-out flag is the *)
(* timer armed by the most recent SetReadDeadline (SetWriteDeadline) call, *)
(* the one the stream remembers in readTimer (writeTimer): a timer armed   *)
(* by an earlier call has been cancelled and never fires.                  *)
(***************************************************************************)
\* The timer id of direction dir fires in this step (Stop() removes a timer
\* too, but only inside a Set*Deadline call, which moves dl).
C11_Fires(dir, id) ==
  /\ <<dir, id>> \in timers
  /\ <<dir, id>> \notin timers'
  /\ dl' = dl

C11_OnlyLatestTimerSets ==
  [][\A id \in 1..(MaxOps + 1) :
        /\ C11_Fires("read", id) => id = readTimer
        /\ C11_Fires("write", id) => id = writeTimer]_vars

(***************************************************************************)
(* The changes of state each event can make: sendFlags (lines 229-236),    *)
(* the switch of Close (lines 294-308) and the ACK and FIN cases of        *)
(* processFlags (lines 348-366); the RST case (lines 372-376) moves the    *)
(* states of its argument to Reset.                                        *)
(***************************************************************************)
C12_Opened == {streamSYNSent, streamSYNReceived, streamEstablished}

C12_SendFlagsTransitions ==
  {<<streamInit, streamSYNSent>>, <<streamSYNReceived, streamEstablished>>}

C12_CloseTransitions ==
  {<<st, streamLocalClose>> : st \in C12_Opened}
    \cup {<<streamRemoteClose, streamClosed>>}

C12_InboundTransitions ==
  {<<streamSYNSent, streamEstablished>>}
    \cup {<<st, streamRemoteClose>> : st \in C12_Opened}
    \cup {<<streamLocalClose, streamClosed>>}

C12_ResetTransitions(from) == {<<st, streamReset>> : st \in from}

\* The goroutine that takes this step.
C12_BySendFlags ==
  \/ \E r \in Readers : rd[r].pc = "swuFlags" /\ rd'[r] # rd[r]
  \/ \E w \in Writers : wr[w].pc = "flags" /\ wr'[w] # wr[w]
  \/ \E c \in Closers : cl[c].pc = "scFlags" /\ cl'[c] # cl[c]

C12_ByClose == \E c \in Closers : cl[c].pc = "lockState" /\ cl'[c] # cl[c]

C12_ByProcessFlags == ss.pc = "processFlags" /\ ss' # ss

C12_ByForceClose == fc.pc = "lock" /\ fc' # fc

(***************************************************************************)
(* C12: every change of state made by sendFlags, by Close or by            *)
(* processFlags is a transition of the state table; an inbound RST moves   *)
(* every state but Reset, Closed included, to Reset; no other event of the *)
(* three changes a Closed or Reset state.                                  *)
(***************************************************************************)
C12_Transition(resettable) ==
  state' # state =>
     \/ C12_BySendFlags /\ <<state, state'>> \in C12_SendFlagsTransitions
     \/ C12_ByClose /\ <<state, state'>> \in C12_CloseTransitions
     \/ /\ C12_ByProcessFlags
        /\ \/ <<state, state'>> \in C12_InboundTransitions
           \/ /\ flagRST \in ss.flags
              /\ <<state, state'>> \in C12_ResetTransitions(resettable)
     \/ C12_ByForceClose

C12_TableTransitions ==
  [][C12_Transition(StreamStates \ {streamReset})]_vars

\* Close has moved the stream from RemoteClose to Closed and an inbound RST has
\* then moved it from Closed to Reset.
C12_Witness ==
  /\ ss.pc = "rdLock" /\ ss.pre = streamClosed /\ ss.post = streamReset
  /\ state = streamReset
  /\ \E c \in Closers : cl[c].from = streamRemoteClose /\ cl[c].to = streamClosed
  /\ ~hist.forced

\* C12 as stated: a Closed state is not changed by an inbound RST either.
C12_Original ==
  [][C12_Transition(StreamStates \ {streamClosed, streamReset})]_vars

(***************************************************************************)
(* C13: sendWindowUpdate computes delta = MaxStreamWindowSize -             *)
(* len(recvBuf) - recvWindow.  When delta >= MaxStreamWindowSize / 2 or    *)
(* sendFlags yields SYN or ACK, it adds delta to recvWindow and hands the  *)
(* session exactly one WindowUpdate frame carrying delta and those flags;  *)
(* otherwise it hands over no frame and leaves recvWindow unchanged.       *)
(***************************************************************************)
C13_Delta ==
  (MaxStreamWindowSize - Len(recvBuf.bytes) - recvWindow) % UintMod

C13_Pending ==
  IF state = streamInit THEN {flagSYN}
  ELSE IF state = streamSYNReceived THEN {flagACK}
  ELSE {}

C13_Decides(r) == rd[r].pc = "swuFlags" /\ rd'[r].pc # "swuFlags"

C13_Sends(r) == rd[r].pc = "swuSend" /\ rd'[r].pc # "swuSend"

C13_WindowUpdate ==
  [][\A r \in Readers :
        /\ C13_Decides(r) =>
             /\ sent' = sent
             /\ IF C13_Delta >= MaxStreamWindowSize \div 2 \/ C13_Pending # {}
                THEN /\ recvWindow' = (recvWindow + C13_Delta) % UintMod
                     /\ rd'[r].pc = "swuSend"
                     /\ rd'[r].delta = C13_Delta
                     /\ rd'[r].flags = C13_Pending
                ELSE /\ recvWindow' = recvWindow
                     /\ rd'[r].pc = "idle"
                     /\ rd'[r].err = ErrNil
        /\ C13_Sends(r) =>
             /\ recvWindow' = recvWindow
             /\ rd'[r].pc = "idle"
             /\ sent' = Append(sent, Frame(typeWindowUpdate, rd[r].flags,
                                           rd[r].delta, <<>>, r))]_vars

\* Two Reads have returned data: the window update of one carried the pending
\* SYN or ACK, the update of the other was omitted.
C13_Witness ==
  /\ hist.dataReads = 2
  /\ Len(sent) = 1
  /\ sent[1].type = typeWindowUpdate
  /\ sent[1].flags # {}

(***************************************************************************)
(* C14: in every reachable state recvWindow + len(recvBuf) is at most      *)
(* MaxStreamWindowSize, so recvWindow never exceeds MaxStreamWindowSize    *)
(* and the delta sendWindowUpdate computes never wraps around.             *)
(***************************************************************************)
C14_NoUnderflow ==
  \A r \in Readers :
     rd[r].pc \in {"swuFlags", "swuSend"} => rd[r].delta <= MaxStreamWindowSize

C14_WindowBound ==
  /\ recvWindow + Len(recvBuf.bytes) <= MaxStreamWindowSize
  /\ C14_NoUnderflow

(***************************************************************************)
(* C15: no goroutine goes for stateLock while it holds recvLock, and no    *)
(* goroutine goes for sendLock while it holds stateLock.                   *)
(***************************************************************************)
C15_LockOrder ==
  \A p \in Procs :
     /\ recvLock = p => WaitsFor(p) # "stateLock"
     /\ stateLock = p => WaitsFor(p) # "sendLock"

(***************************************************************************)
(* C16: processFlags called with the ACK flag notifies the session through *)
(* establishStream(id) whatever the state; it moves a stream in SYNSent to *)
(* Established and leaves a stream in Init in Init.                        *)
(***************************************************************************)
C16_ACKProcessed(st) ==
  /\ ss.pc = "processFlags" /\ ss' # ss
  /\ ss.flags = {flagACK}
  /\ state = st

C17_FirstFrameFlagged ==
  sent # <<>> =>
     (IF hist.created = streamInit THEN flagSYN ELSE flagACK) \in sent[1].flags

(***************************************************************************)
(* C18: once readData has returned, with an error or without, the session  *)
(* goroutine does not hold recvLock.                                       *)
(***************************************************************************)
C18_RecvLockReleased == ss.pc = "idle" => recvLock # Sess

(***************************************************************************)
(* C19: among the frames handed to the session, no Data frame comes after  *)
(* the frame that carries the FIN.                                         *)
(***************************************************************************)
C19_NoDataAfterFIN ==
  \A i, j \in DOMAIN sent :
     (i < j /\ flagFIN \in sent[i].flags) => sent[j].type # typeData

(***************************************************************************)
(* C20: Close never panics, whatever the state it is called in, and a      *)
(* Close that is not running does not hold stateLock.                      *)
(***************************************************************************)
C20_CloseDefined ==
  \A c \in Closers :
     /\ cl[c].pc # "panic"
     /\ cl[c].pc = "idle" => stateLock # c

=============================================================================
